---- MODULE Spec2Model ----
(***************************************************************************)
(* Model of dagster-uc's command handlers in                               *)
(* src/dagster_uc/manage_user_code_deployments.py: concurrent invocations  *)
(* of `deployment deploy`, `deployment revive` and `deployment delete`     *)
(* against one cluster holding the Lock Record (semaphore), the Registry   *)
(* Document (user deployments configmap) and the user code pods.           *)
(*                                                                         *)
(* Every invocation is one operating-system process; the atomic steps are  *)
(* the individual calls it makes to the handler / cluster gateway.         *)
(* The methods of DagsterUserCodeHandler (dagster_uc/uc_handler.py) follow *)
(* sections 3 and 4 of the design document: the semaphore is claimed and   *)
(* cleared atomically, the registry is read and written back as a whole.   *)
(* An invocation runs once; when its process ends only its command line    *)
(* (cmd, reset_lock), its exit status (raised) and the number of its       *)
(* release_semaphore calls remain.                                         *)
(***************************************************************************)
EXTENDS Naturals, Sequences, FiniteSets

\* ---------------------------------------------------------------- bounds
MaxCount == 1        \* cap on the retry counter `count` of the acquire loop
MaxTag == 2          \* image tags are 1..MaxTag

Procs == {"p1", "p2"}   \* two concurrent CLI invocations
Names == {"a", "b"}
Tags == 1..MaxTag
NoHolder == "none"

VARIABLES
    lock,             \* Lock Record: [held, holder]
    registry,         \* Registry Document: sequence of [name, tag]
    cmd,              \* per invocation: the command it runs ("none": not started)
    pc,               \* per invocation: position in its handler
    deployment_name,  \* per invocation: --name / --deployment-name
    new_tag,          \* per invocation: --tag (revive) or gen_tag's result (deploy)
    force,            \* per invocation: --force
    cicd,             \* per invocation: config.cicd
    reset_lock,       \* per invocation: --reset-lock
    count,            \* per invocation: deploy's retry counter
    doc,              \* per invocation: document read by a handler read-modify-write
    pod_found,        \* per invocation: result of check_if_code_pod_exists, if called
    raised,           \* per invocation: the exception propagating, or "none"
    full_redeploy_done, \* per invocation: deploy's flag of that name
    timeout,          \* per invocation: deploy's readiness-wait timeout, 0 until set
    releases,         \* per invocation: number of release_semaphore calls made
    calls             \* per invocation: the mutating handler calls it has issued

vars == <<lock, registry, cicd, cmd, pc, deployment_name, new_tag, force,
          reset_lock, count, doc, pod_found, full_redeploy_done, timeout, raised,
          releases, calls>>

shared == <<lock, registry>>
params == <<cmd, deployment_name, force, reset_lock, releases>>
watcher == <<full_redeploy_done, timeout>>

\* ------------------------------------------------------------- registry
Record(n, t) == [name |-> n, tag |-> t]

RECURSIVE FilterOut(_, _)
\* remove: the document without the records named n
FilterOut(d, n) ==
    IF d = <<>> THEN <<>>
    ELSE IF Head(d).name = n THEN FilterOut(Tail(d), n)
         ELSE <<Head(d)>> \o FilterOut(Tail(d), n)

\* add: the document with the record appended; uniqueness is not enforced
AddRecord(d, n, t) == Append(d, Record(n, t))

\* _check_deployment_exists
CheckExists(d, n) == \E i \in 1..Len(d) : d[i].name = n

UniqueNames(d) == \A i, j \in 1..Len(d) : d[i].name = d[j].name => i = j

InitRegistries ==
    { <<>>, <<Record("a", 1)>>, <<Record("a", 1), Record("b", 1)>> }

\* ------------------------------------------------------------ semaphore
FreeLock == [held |-> FALSE, holder |-> NoHolder]

\* acquire_semaphore(reset_lock): the Lock Record after the call by p
AcquireLock(l, p, forceReset) ==
    LET cleared == IF forceReset THEN FreeLock ELSE l
    IN  IF cleared.held THEN l ELSE [held |-> TRUE, holder |-> p]

\* acquire_semaphore(reset_lock): the call's result
AcquireOk(l, forceReset) == forceReset \/ ~l.held

\* release_semaphore(): unconditionally clears the Lock Record
ReleaseLock(l) == FreeLock

\* --------------------------------------------------------------- calls
\* a handler call: the method, the deployment name or label, the tag and the
\* keyword flag it is given (0 and FALSE where it takes none)
Call(op, n, t, flag) == [op |-> op, name |-> n, tag |-> t, flag |-> flag]
NoName == "-"

Log(p, c) == calls' = [calls EXCEPT ![p] = Append(@, c)]

Goto(p, l) == pc' = [pc EXCEPT ![p] = l]

Local(p, l) ==
    /\ pc' = [pc EXCEPT ![p] = l]
    /\ UNCHANGED <<shared, cicd, params, pod_found, watcher, new_tag, count, doc, raised, calls>>

\* Defaults of the handler's keyword arguments
DefaultDeleteDeployments == TRUE
DefaultReloadDagster == TRUE

\* ------------------------------------------------ handler read-modify-write
\* first half of add/remove: read and parse the whole Registry Document
HandlerRead(p, from, to) ==
    /\ pc[p] = from
    /\ doc' = [doc EXCEPT ![p] = registry]
    /\ Goto(p, to)
    /\ UNCHANGED <<shared, cicd, params, pod_found, watcher, new_tag, count, raised, calls>>

\* second half of add_user_deployment_to_configmap: write the document back
HandlerAddWrite(p, from, to) ==
    /\ pc[p] = from
    /\ registry' = AddRecord(doc[p], deployment_name[p], new_tag[p])
    /\ doc' = [doc EXCEPT ![p] = <<>>]
    /\ Log(p, Call("add", deployment_name[p], new_tag[p], FALSE))
    /\ Goto(p, to)
    /\ UNCHANGED <<lock, cicd, params, pod_found, watcher, new_tag, count, raised>>

\* second half of remove_user_deployment_from_configmap
HandlerRemoveWrite(p, from, to) ==
    /\ pc[p] = from
    /\ registry' = FilterOut(doc[p], deployment_name[p])
    /\ doc' = [doc EXCEPT ![p] = <<>>]
    /\ Log(p, Call("remove", deployment_name[p], 0, FALSE))
    /\ Goto(p, to)
    /\ UNCHANGED <<lock, cicd, params, pod_found, watcher, new_tag, count, raised>>

\* delete_k8s_resources_for_user_deployment(name, delete_deployments)
HandlerDeleteResources(p, from, to, delete_deployments) ==
    /\ pc[p] = from
    /\ Log(p, Call("delete_k8s_resources", deployment_name[p], 0, delete_deployments))
    /\ Goto(p, to)
    /\ UNCHANGED <<shared, cicd, params, pod_found, watcher, new_tag, count, doc, raised>>

\* deploy_to_k8s(reload_dagster)
HandlerDeployToK8s(p, from, to, reload_dagster) ==
    /\ pc[p] = from
    /\ Log(p, Call("deploy_to_k8s", NoName, 0, reload_dagster))
    /\ Goto(p, to)
    /\ UNCHANGED <<shared, cicd, params, pod_found, watcher, new_tag, count, doc, raised>>

\* the process ends, normally or with the exception exc propagating out of the
\* command: its memory is gone, its exit status and command line remain
Terminate(p, exc) ==
    /\ Goto(p, "exited")
    /\ raised' = [raised EXCEPT ![p] = exc]
    /\ deployment_name' = [deployment_name EXCEPT ![p] = NoName]
    /\ new_tag' = [new_tag EXCEPT ![p] = 0]
    /\ force' = [force EXCEPT ![p] = FALSE]
    /\ cicd' = [cicd EXCEPT ![p] = FALSE]
    /\ count' = [count EXCEPT ![p] = 0]
    /\ doc' = [doc EXCEPT ![p] = <<>>]
    /\ pod_found' = [pod_found EXCEPT ![p] = "unread"]
    /\ full_redeploy_done' = [full_redeploy_done EXCEPT ![p] = FALSE]
    /\ timeout' = [timeout EXCEPT ![p] = 0]
    /\ calls' = [calls EXCEPT ![p] = <<>>]
    /\ UNCHANGED <<cmd, reset_lock>>

RaiseInTry_NoFinally(p, exc) ==
    /\ Terminate(p, exc)
    /\ UNCHANGED <<shared, releases>>

\* an exception leaves deploy's try block: the finally clause releases the
\* semaphore and the exception ends the process
RaiseInTry(p, exc) ==
    /\ lock' = ReleaseLock(lock)
    /\ releases' = [releases EXCEPT ![p] = @ + 1]
    /\ Terminate(p, exc)
    /\ UNCHANGED registry

\* ------------------------------------------------------------ CLI dispatch
\* deploy reads --reset-lock at once; its other options and config.cicd are
\* drawn where the handler first reads them
StartDeploy(p) ==
    /\ cmd[p] = "none"
    /\ cmd' = [cmd EXCEPT ![p] = "deploy"]
    /\ \E r \in BOOLEAN : reset_lock' = [reset_lock EXCEPT ![p] = r]
    /\ Goto(p, "acquire")
    /\ UNCHANGED <<shared, cicd, deployment_name, force, new_tag, count, doc, pod_found, watcher,
                   raised, releases, calls>>

StartRevive(p) ==
    /\ cmd[p] = "none"
    /\ \E n \in Names, t \in Tags :
          /\ cmd' = [cmd EXCEPT ![p] = "revive"]
          /\ deployment_name' = [deployment_name EXCEPT ![p] = n]
          /\ new_tag' = [new_tag EXCEPT ![p] = t]
    /\ Goto(p, "revive_check")
    /\ UNCHANGED <<shared, cicd, force, reset_lock, count, doc, pod_found, watcher, raised, releases, calls>>

StartDelete(p) ==
    /\ cmd[p] = "none"
    /\ \E n \in Names, delete_all \in BOOLEAN :
          IF delete_all
          THEN /\ cmd' = [cmd EXCEPT ![p] = "delete_all"]
               /\ Goto(p, "all_remove")
               /\ UNCHANGED deployment_name
          ELSE /\ cmd' = [cmd EXCEPT ![p] = "delete"]
               /\ deployment_name' = [deployment_name EXCEPT ![p] = n]
               /\ Goto(p, "delete_rm_r")
    /\ UNCHANGED <<shared, cicd, new_tag, force, reset_lock, count, doc, pod_found, watcher, raised, releases, calls>>

\* ------------------------------------------------------------------ deploy
AcquireArg_AlwaysReset(p) == TRUE

AcquireArg_NeverReset(p) == FALSE

\* the argument deploy passes to acquire_semaphore
AcquireArg(p) == reset_lock[p]

RetryCondition_Never(ok) == FALSE

\* `while not handler.acquire_semaphore(reset_lock)`: TRUE when the loop body runs
RetryCondition(ok) == ~ok

DeployAcquire_GiveUp(p) ==
    /\ pc[p] = "acquire"
    /\ LET ok == AcquireOk(lock, AcquireArg(p))
       IN  /\ lock' = AcquireLock(lock, p, AcquireArg(p))
           /\ IF RetryCondition(ok)
              THEN /\ Terminate(p, "lock_held")
                   /\ UNCHANGED releases
              ELSE /\ Goto(p, "podman")
                   /\ Log(p, Call("acquire_semaphore", NoName, 0, AcquireArg(p)))
                   /\ UNCHANGED <<cicd, count, params, pod_found, watcher, new_tag, doc,
                                  raised>>
    /\ UNCHANGED registry

DeployAcquire(p) ==
    /\ pc[p] = "acquire"
    /\ LET ok == AcquireOk(lock, AcquireArg(p))
       IN  /\ lock' = AcquireLock(lock, p, AcquireArg(p))
           /\ IF RetryCondition(ok)
              THEN /\ count[p] < MaxCount
                   /\ count' = [count EXCEPT ![p] = @ + 1]
                   /\ UNCHANGED <<pc, calls>>
              ELSE /\ Goto(p, "podman")
                   /\ Log(p, Call("acquire_semaphore", NoName, 0, AcquireArg(p)))
                   /\ UNCHANGED count
    /\ UNCHANGED <<registry, cicd, params, pod_found, watcher, new_tag, doc, raised>>

\* is_command_available(podman)
DeployPodman(p) ==
    /\ pc[p] = "podman"
    /\ \E available \in BOOLEAN :
          IF available
          THEN Local(p, "gen_tag")
          ELSE RaiseInTry(p, "podman_required")

\* deployment_name = deployment_name or handler.get_deployment_name(...), then
\* new_tag = gen_tag(...), then full_redeploy_done = False
DeployGenTag(p) ==
    /\ pc[p] = "gen_tag"
    /\ \E n \in Names : deployment_name' = [deployment_name EXCEPT ![p] = n]
    /\ \E t \in Tags : new_tag' = [new_tag EXCEPT ![p] = t]
    /\ full_redeploy_done' = [full_redeploy_done EXCEPT ![p] = FALSE]
    /\ Goto(p, "build")
    /\ UNCHANGED <<shared, cicd, cmd, force, reset_lock, pod_found, timeout, count, doc,
                   raised, releases, calls>>

\* build_push_container unless --skip-build; build_and_push may fail
DeployBuild(p) ==
    /\ pc[p] = "build"
    /\ \E skip_build \in BOOLEAN, built \in BOOLEAN :
          IF skip_build \/ built
          THEN Local(p, "check_exists")
          ELSE RaiseInTry(p, "build_failed")

DeployCheckExists_AlwaysCreate(p) ==
    /\ pc[p] = "check_exists"
    /\ Local(p, "create_add_r")

DeployCheckExists(p) ==
    /\ pc[p] = "check_exists"
    /\ IF ~CheckExists(registry, deployment_name[p])
       THEN Local(p, "create_add_r")
       ELSE Local(p, "update_rm_r")

DeployCreateAdd(p) ==
    \/ HandlerRead(p, "create_add_r", "create_add_w")
    \/ HandlerAddWrite(p, "create_add_w", "create_reload")

DeployUpdateRemove_Skip(p) ==
    /\ pc[p] = "update_rm_r"
    /\ Local(p, "update_add_r")

DeployUpdateRemove(p) ==
    \/ HandlerRead(p, "update_rm_r", "update_rm_w")
    \/ HandlerRemoveWrite(p, "update_rm_w", "update_add_r")

DeployUpdateAdd(p) ==
    \/ HandlerRead(p, "update_add_r", "update_add_w")
    \/ HandlerAddWrite(p, "update_add_w", "decide")

\* the if / elif / else of the update path; check_if_code_pod_exists reads the
\* live pods matching deployment=<name>, which the cluster changes on its own
DeployDecide(p) ==
    /\ pc[p] = "decide"
    /\ \E c \in BOOLEAN, f \in BOOLEAN :
          /\ cicd' = [cicd EXCEPT ![p] = c]
          /\ force' = [force EXCEPT ![p] = f]
          /\ IF c \/ f
             THEN Goto(p, "stale_delete") /\ UNCHANGED pod_found
             ELSE \E exists \in BOOLEAN :
                     /\ pod_found' = [pod_found EXCEPT ![p] = IF exists THEN "found" ELSE "absent"]
                     /\ IF ~exists
                        THEN Goto(p, "nopod_delete")
                        ELSE Goto(p, "pod_delete")
    /\ UNCHANGED <<shared, cmd, deployment_name, reset_lock, new_tag, count, doc, watcher,
                   raised, releases, calls>>

DeployDeleteResources_KeepDeployments(p) ==
    \/ HandlerDeleteResources(p, "stale_delete", "stale_reload", DefaultDeleteDeployments)
    \/ HandlerDeleteResources(p, "nopod_delete", "nopod_reload", FALSE)
    \/ HandlerDeleteResources(p, "pod_delete", "pod_reload", FALSE)

DeployDeleteResources(p) ==
    \/ HandlerDeleteResources(p, "stale_delete", "stale_reload", DefaultDeleteDeployments)
    \/ HandlerDeleteResources(p, "nopod_delete", "nopod_reload", TRUE)
    \/ HandlerDeleteResources(p, "pod_delete", "pod_reload", FALSE)

DeployReload_AlwaysFull(p) ==
    \/ HandlerDeployToK8s(p, "create_reload", "release", DefaultReloadDagster)
    \/ HandlerDeployToK8s(p, "stale_reload", "release", DefaultReloadDagster)
    \/ HandlerDeployToK8s(p, "nopod_reload", "release", DefaultReloadDagster)
    \/ HandlerDeployToK8s(p, "pod_reload", "release", DefaultReloadDagster)

DeployReload(p) ==
    \/ HandlerDeployToK8s(p, "create_reload", "release", DefaultReloadDagster)
    \/ HandlerDeployToK8s(p, "stale_reload", "release", DefaultReloadDagster)
    \/ HandlerDeployToK8s(p, "nopod_reload", "release", DefaultReloadDagster)
    \/ HandlerDeployToK8s(p, "pod_reload", "release", FALSE)

\* positions inside the try block at which a handler, builder or gateway call
\* may raise
TryBody ==
    {"gen_tag", "check_exists", "create_add_r", "create_add_w",
     "update_rm_r", "update_rm_w", "update_add_r", "update_add_w", "decide",
     "stale_delete", "nopod_delete", "pod_delete",
     "create_reload", "stale_reload", "nopod_reload", "pod_reload"}

DeployRaise(p) ==
    /\ pc[p] \in TryBody
    /\ RaiseInTry(p, "error")

DeployRelease_NoRelease(p) ==
    /\ pc[p] = "release"
    /\ Local(p, "watch")

\* finally: handler.release_semaphore() after a try block that completed
DeployRelease(p) ==
    /\ pc[p] = "release"
    /\ lock' = ReleaseLock(lock)
    /\ releases' = [releases EXCEPT ![p] = @ + 1]
    /\ Log(p, Call("release_semaphore", NoName, 0, FALSE))
    /\ Goto(p, "watch")
    /\ UNCHANGED <<registry, cicd, cmd, deployment_name, force, reset_lock, pod_found, watcher,
                   new_tag, count, doc, raised>>

\* --------------------------------------------------------- status watcher
ReadyTimeoutSoft == 40
ReadyTimeoutFull == 240

\* the gateway's answer to handler.api.get(Pod, label_selector=...), which is
\* called outside any try or suppress block
PodListings == {"empty", "pods", "error"}

\* time.sleep(5); timeout = 40 if not full_redeploy_done else 240; then
\* while True: list the pods labelled deployment=<name>, sleep 2 and list
\* again while there is none
DeployWatch(p) ==
    /\ pc[p] = "watch"
    /\ \E listing \in PodListings :
          IF listing = "error"
          THEN Terminate(p, "api_error") /\ UNCHANGED <<shared, releases>>
          ELSE IF listing = "empty"
               THEN UNCHANGED vars
               ELSE /\ timeout' = [timeout EXCEPT ![p] = IF ~full_redeploy_done[p]
                                                         THEN ReadyTimeoutSoft
                                                         ELSE ReadyTimeoutFull]
                    /\ Goto(p, "wait_ready")
                    /\ UNCHANGED <<shared, cicd, params, pod_found, full_redeploy_done,
                                   new_tag, count, doc, raised, calls>>

\* with contextlib.suppress(Exception): code_pod.wait("condition=Ready",
\* timeout=timeout) for every pod; then check_deployment begins with
\* handler._check_deployment_exists(name), which only warns when the name is
\* missing but whose read of the Registry Document may fail
DeployWaitReady(p) ==
    /\ pc[p] = "wait_ready"
    /\ \E outcome \in {"ready", "timeout", "error"}, readable \in BOOLEAN :
          IF readable
          THEN Local(p, "check_pods")
          ELSE Terminate(p, "registry_error") /\ UNCHANGED <<shared, releases>>

\* check_deployment: list the pods, then follow each pod's logs inside
\* contextlib.suppress(Exception); deploy returns
CheckDeploymentLogs(p) ==
    /\ pc[p] = "check_pods"
    /\ \E listing \in PodListings \ {"empty"}, logs \in {"read", "timeout", "error"} :
          /\ Terminate(p, IF listing = "error" THEN "api_error" ELSE "none")
          /\ UNCHANGED <<shared, releases>>

\* ------------------------------------------------------------------ revive
ReviveCheck_NoCheck(p) ==
    /\ pc[p] = "revive_check"
    /\ Local(p, "revive_add_r")

ReviveCheck(p) ==
    /\ pc[p] = "revive_check"
    /\ IF ~CheckExists(registry, deployment_name[p])
       THEN Local(p, "revive_add_r")
       ELSE /\ Terminate(p, "already_exists")
            /\ UNCHANGED <<shared, releases>>

ReviveAdd(p) ==
    \/ HandlerRead(p, "revive_add_r", "revive_add_w")
    \/ HandlerAddWrite(p, "revive_add_w", "revive_reload")

ReviveReload_NoReload(p) ==
    /\ pc[p] = "revive_reload"
    /\ Local(p, "done")

ReviveReload(p) == HandlerDeployToK8s(p, "revive_reload", "done", DefaultReloadDagster)

\* ------------------------------------------------------------------ delete
DeleteRemove(p) ==
    \/ HandlerRead(p, "delete_rm_r", "delete_rm_w")
    \/ HandlerRemoveWrite(p, "delete_rm_w", "delete_res")

DeleteResources_KeepDeployments(p) ==
    HandlerDeleteResources(p, "delete_res", "delete_reload", FALSE)

DeleteResources(p) == HandlerDeleteResources(p, "delete_res", "delete_reload", TRUE)

DeleteReload(p) == HandlerDeployToK8s(p, "delete_reload", "done", TRUE)

DeleteAllRemove_KeepRecords(p) ==
    /\ pc[p] = "all_remove"
    /\ Log(p, Call("remove_all", NoName, 0, FALSE))
    /\ Goto(p, "all_delete")
    /\ UNCHANGED <<shared, cicd, params, pod_found, watcher, new_tag, count, doc, raised>>

\* delete --all: remove_all_deployments()
DeleteAllRemove(p) ==
    /\ pc[p] = "all_remove"
    /\ registry' = <<>>
    /\ Log(p, Call("remove_all", NoName, 0, FALSE))
    /\ Goto(p, "all_delete")
    /\ UNCHANGED <<lock, cicd, params, pod_found, watcher, new_tag, count, doc, raised>>

\* delete --all: the resources under the platform's ownership labels
DeleteAllResources(p) ==
    /\ pc[p] = "all_delete"
    /\ calls' = [calls EXCEPT ![p] = @ \o
          << Call("delete_k8s_resources", "app.kubernetes.io/name=dagster-user-deployments", 0, FALSE),
             Call("delete_k8s_resources", "app=dagster-user-deployments", 0, FALSE),
             Call("delete_configmaps", "app=dagster-user-deployments", 0, FALSE),
             Call("delete_k8s_resources", "dagster/code-location", 0, FALSE) >>]
    /\ Goto(p, "all_reload")
    /\ UNCHANGED <<shared, cicd, params, pod_found, watcher, new_tag, count, doc, raised>>

DeleteAllReload(p) == HandlerDeployToK8s(p, "all_reload", "done", DefaultReloadDagster)

\* the command returns
Exit(p) ==
    /\ pc[p] = "done"
    /\ Terminate(p, "none")
    /\ UNCHANGED <<shared, releases>>

\* ----------------------------------------------------------- specification
Init ==
    /\ lock = FreeLock
    /\ registry \in InitRegistries
    /\ cicd = [p \in Procs |-> FALSE]
    /\ cmd = [p \in Procs |-> "none"]
    /\ pc = [p \in Procs |-> "start"]
    /\ deployment_name = [p \in Procs |-> NoName]
    /\ new_tag = [p \in Procs |-> 0]
    /\ force = [p \in Procs |-> FALSE]
    /\ reset_lock = [p \in Procs |-> FALSE]
    /\ count = [p \in Procs |-> 0]
    /\ doc = [p \in Procs |-> <<>>]
    /\ pod_found = [p \in Procs |-> "unread"]
    /\ full_redeploy_done = [p \in Procs |-> FALSE]
    /\ timeout = [p \in Procs |-> 0]
    /\ raised = [p \in Procs |-> "none"]
    /\ releases = [p \in Procs |-> 0]
    /\ calls = [p \in Procs |-> <<>>]

\* one step of invocation p
Step(p) ==
    \/ StartDeploy(p)
    \/ StartRevive(p)
    \/ StartDelete(p)
    \/ DeployAcquire(p)
    \/ DeployPodman(p)
    \/ DeployGenTag(p)
    \/ DeployBuild(p)
    \/ DeployCheckExists(p)
    \/ DeployCreateAdd(p)
    \/ DeployUpdateRemove(p)
    \/ DeployUpdateAdd(p)
    \/ DeployDecide(p)
    \/ DeployDeleteResources(p)
    \/ DeployReload(p)
    \/ DeployRaise(p)
    \/ DeployRelease(p)
    \/ DeployWatch(p)
    \/ DeployWaitReady(p)
    \/ CheckDeploymentLogs(p)
    \/ ReviveCheck(p)
    \/ ReviveAdd(p)
    \/ ReviveReload(p)
    \/ DeleteRemove(p)
    \/ DeleteResources(p)
    \/ DeleteReload(p)
    \/ DeleteAllRemove(p)
    \/ DeleteAllResources(p)
    \/ DeleteAllReload(p)
    \/ Exit(p)

\* invocations run concurrently, interleaved call by call
Next == \E p \in Procs : Step(p)

Spec == Init /\ [][Next]_vars

\* invocations run one after another: a command runs while no other one does
Alone(p) == \A q \in Procs \ {p} : pc[q] \in {"start", "exited"}

NextSeq == \E p \in Procs : Alone(p) /\ Step(p)

SpecSeq == Init /\ [][NextSeq]_vars

\* the invocations all name deployment "a" and the first tag: the Semaphore
\* protocol reads neither the name nor the tag
FairStep(p) ==
    /\ Step(p)
    /\ deployment_name'[p] \in {NoName, "a"}
    /\ new_tag'[p] <= 1

NextFair == \E p \in Procs : FairStep(p)

\* a started invocation is a running process: it keeps executing as long as
\* it has a next statement to execute (a sleeping retry loop wakes up again)
Fairness == \A p \in Procs : WF_vars(FairStep(p))

SpecFair == Init /\ [][NextFair]_vars /\ Fairness

\* ------------------------------------------------------------------ claims
\* positions between a successful acquire_semaphore and release_semaphore
CriticalSection ==
    TryBody \cup {"podman", "build", "release"}

InCS(p) == cmd[p] = "deploy" /\ pc[p] \in CriticalSection

\* positions of the status watcher, after release_semaphore
WatchPhase == {"watch", "wait_ready", "check_pods"}

\* no invocation was started with --reset-lock
NoResetLock == \A p \in Procs : ~reset_lock[p]

\* p takes a step of its acquire loop
Attempt(p) == pc[p] = "acquire" /\ (pc'[p] # pc[p] \/ count'[p] # count[p])

HasCall(p, op) == \E i \in 1..Len(calls[p]) : calls[p][i].op = op

\* C1 as stated: in every reachable state at most one deploy invocation is
\* between its successful acquire_semaphore and its release_semaphore, with
\* or without --reset-lock.
C1_AtMostOneInCS ==
    \A p, q \in Procs : (InCS(p) /\ InCS(q)) => p = q

\* C1 amended: as long as no invocation uses --reset-lock, at most one deploy
\* invocation is between its successful acquire_semaphore and its
\* release_semaphore.
C1_AtMostOneInCSWithoutReset ==
    NoResetLock => \A p, q \in Procs : (InCS(p) /\ InCS(q)) => p = q

\* one invocation is in its critical section while the other one has failed
\* an acquire attempt and waits
C1_Witness ==
    /\ NoResetLock
    /\ \E p, q \in Procs : InCS(p) /\ pc[q] = "acquire" /\ count[q] > 0

\* C2: with two deploy invocations that both acquire with forceReset=false,
\* an acquire attempt succeeds exactly when the other invocation is not
\* between its acquire and its release: on a free Lock Record the first
\* attempt succeeds at once, and the other's attempts fail until the first
\* invocation has released.
C2_SecondSucceedsOnlyAfterRelease ==
    [][ NoResetLock =>
          \A q \in Procs :
             Attempt(q) =>
                (pc'[q] = "podman" <=> ~(\E p \in Procs \ {q} : InCS(p))) ]_vars

\* the second invocation is in its critical section after a failed attempt,
\* the first one has released and watches its pods
C2_Witness ==
    /\ NoResetLock
    /\ \E p, q \in Procs :
          /\ cmd[p] = "deploy" /\ pc[p] = "watch"
          /\ InCS(q) /\ count[q] > 0

\* C3: every acquire attempt of a deploy invoked with --reset-lock succeeds,
\* whoever holds the Lock Record: the invocation claims the record and enters
\* its critical section on the first attempt, never executing the retry
\* branch of the loop.
C3_ResetLockNeverRetries ==
    [][ \A p \in Procs :
           (Attempt(p) /\ reset_lock[p]) =>
               /\ pc'[p] = "podman"
               /\ count[p] = 0 /\ count'[p] = 0
               /\ lock' = [held |-> TRUE, holder |-> p] ]_vars

\* an invocation with --reset-lock is in its critical section together with
\* the invocation it took the Lock Record from
C3_Witness ==
    \E p, q \in Procs :
        /\ reset_lock[p] /\ InCS(p) /\ lock.holder = p
        /\ ~reset_lock[q] /\ InCS(q)

\* C4: a deploy invocation calls release_semaphore exactly once after its
\* successful acquire, whichever way it leaves the try block (completion,
\* podman missing, build failure, any other error), never before, and a
\* terminated deploy invocation is not the holder of the Lock Record.
C4_ReleaseExactlyOnce ==
    \A p \in Procs :
        cmd[p] = "deploy" =>
            /\ pc[p] \in WatchPhase \cup {"exited"} =>
                  (releases[p] = 1 /\ lock.holder # p)
            /\ pc[p] \in CriticalSection \cup {"acquire"} => releases[p] = 0

\* a deploy invocation has ended with a failed build
C4_Witness ==
    \E p \in Procs :
        cmd[p] = "deploy" /\ pc[p] = "exited" /\ raised[p] = "build_failed"

\* positions at which the next call writes the Registry Document
WritePositions ==
    {"create_add_w", "update_rm_w", "update_add_w", "revive_add_w", "delete_rm_w",
     "all_remove"}

\* p's next step completes the call at its position (it does not raise)
Completes(p) == pc'[p] # pc[p] /\ pc'[p] # "exited"

\* C5: every write of the Registry Document, by deploy, revive, delete or
\* delete --all, is made by an invocation that holds the Semaphore.
C5_WritesUnderSemaphore ==
    [][ \A p \in Procs :
           (pc[p] \in WritePositions /\ Completes(p)) =>
               lock = [held |-> TRUE, holder |-> p] ]_vars

\* every started invocation is a deploy without --reset-lock, so that each
\* runs its critical section as the holder of the Semaphore
OnlyDeploysHoldingSemaphore ==
    \A p \in Procs : cmd[p] \in {"none", "deploy"} /\ ~reset_lock[p]

\* C6: starting from unique names, after any sequence of deploy invocations
\* (create path and update path), each holding the Semaphore, no two records
\* of the Registry Document share a name.
C6_UniqueNamesUnderSemaphore ==
    OnlyDeploysHoldingSemaphore => UniqueNames(registry)

\* two deploys have completed, one through the update path and one through
\* the create path, and the registry holds two records
C6_Witness ==
    /\ OnlyDeploysHoldingSemaphore
    /\ Len(registry) = 2
    /\ \E p, q \in Procs :
          /\ pc[p] = "watch" /\ HasCall(p, "remove")
          /\ pc[q] = "watch" /\ ~HasCall(q, "remove")

\* C7: in every reachable state of concurrent deploy, revive and delete
\* invocations no two records of the Registry Document share a name.
C7_UniqueNamesAlways == UniqueNames(registry)

\* C8: a revive that finds its name in the registry ends with the error
\* "already exists", having issued no handler call that writes: the Registry
\* Document and the Lock Record are unchanged and no reload was triggered.
C8_ReviveExistingFails ==
    [][ \A p \in Procs :
           ( /\ pc[p] = "revive_check"
             /\ CheckExists(registry, deployment_name[p])
             /\ pc'[p] # pc[p] ) =>
               /\ pc'[p] = "exited"
               /\ raised'[p] = "already_exists"
               /\ calls[p] = <<>>
               /\ registry' = registry
               /\ lock' = lock ]_vars

\* a revive has ended with "already exists"
C8_Witness ==
    \E p \in Procs :
        cmd[p] = "revive" /\ pc[p] = "exited" /\ raised[p] = "already_exists"

\* C9: a revive that does not find its name in the registry, run while no
\* other command runs, appends exactly the record (name, tag) to the Registry
\* Document, leaves all other records as they are, and then triggers a
\* reload before it returns.
C9_ReviveInsertsOneRecord ==
    /\ [][ \A p \in Procs :
              (cmd[p] = "revive" /\ pc'[p] # pc[p]) =>
                  /\ ( pc[p] = "revive_check" /\
                       ~CheckExists(registry, deployment_name[p]) ) =>
                          pc'[p] = "revive_add_r"
                  /\ registry' =
                        IF pc[p] = "revive_add_w"
                        THEN registry \o <<Record(deployment_name[p], new_tag[p])>>
                        ELSE registry ]_vars
    /\ [](\A p \in Procs :
              (cmd[p] = "revive" /\ pc[p] = "done") =>
                  calls[p] = << Call("add", deployment_name[p], new_tag[p], FALSE),
                                Call("deploy_to_k8s", NoName, 0, TRUE) >>)

\* a revive has returned and the registry holds its record after another one
C9_Witness ==
    \E p \in Procs :
        /\ cmd[p] = "revive" /\ pc[p] = "done"
        /\ Len(registry) = 2
        /\ registry[2] = Record(deployment_name[p], new_tag[p])
        /\ registry[1].name # deployment_name[p]

\* the calls of a deploy that went through the update path and did a full
\* redeploy, up to the end of its try block
FullRedeployCalls(p) ==
    << Call("acquire_semaphore", NoName, 0, reset_lock[p]),
       Call("remove", deployment_name[p], 0, FALSE),
       Call("add", deployment_name[p], new_tag[p], FALSE),
       Call("delete_k8s_resources", deployment_name[p], 0, TRUE),
       Call("deploy_to_k8s", NoName, 0, TRUE) >>

\* C10: a deploy that finds a record with its name takes the update path,
\* and when no live pod matches (check_if_code_pod_exists returned false, or
\* was not asked because of --force or cicd) it has, at the end of its try
\* block, removed and re-inserted the record with the new tag, deleted the
\* resources with delete_deployments=True and triggered a full reload.
C10_ExistsNoPodFullRedeploy ==
    /\ [][ \A p \in Procs :
              ( /\ pc[p] = "check_exists"
                /\ CheckExists(registry, deployment_name[p])
                /\ Completes(p) ) => pc'[p] = "update_rm_r" ]_vars
    /\ [](\A p \in Procs :
              ( /\ pc[p] = "release"
                /\ HasCall(p, "remove")
                /\ pod_found[p] # "found" ) => calls[p] = FullRedeployCalls(p))

\* a deploy without --force in interactive mode found the record but no pod
\* and has reached the end of its try block
C10_Witness ==
    \E p \in Procs :
        /\ pc[p] = "release" /\ pod_found[p] = "absent"
        /\ ~force[p] /\ ~cicd[p]
        /\ new_tag[p] = 2

\* C11: when deploy waits for readiness, its timeout is 240 seconds if the
\* reconciliation was a full reload (the name had no record, or it had one
\* and check_if_code_pod_exists found no pod) and 40 seconds if it was a soft
\* restart (record and pod found, no --force, interactive).
C11_TimeoutFollowsReload ==
    \A p \in Procs :
        pc[p] = "wait_ready" =>
            /\ (~HasCall(p, "remove") \/ pod_found[p] = "absent") =>
                  timeout[p] = ReadyTimeoutFull
            /\ pod_found[p] = "found" => timeout[p] = ReadyTimeoutSoft

\* the calls of a deploy that went through the update path and did a soft
\* restart, up to the end of its try block
SoftRestartCalls(p) ==
    << Call("acquire_semaphore", NoName, 0, reset_lock[p]),
       Call("remove", deployment_name[p], 0, FALSE),
       Call("add", deployment_name[p], new_tag[p], FALSE),
       Call("delete_k8s_resources", deployment_name[p], 0, FALSE),
       Call("deploy_to_k8s", NoName, 0, FALSE) >>

\* C12: a deploy without --force in interactive mode that finds a record
\* with its name and a live pod has, at the end of its try block, removed and
\* re-inserted the record with the new tag, deleted the resources with
\* delete_deployments=False and triggered the reload with
\* reload_dagster=False, and has made no other mutating call.
C12_PodPresentSoftRestart ==
    \A p \in Procs :
        ( /\ pc[p] = "release"
          /\ HasCall(p, "remove")
          /\ ~force[p] /\ ~cicd[p]
          /\ pod_found[p] = "found" ) => calls[p] = SoftRestartCalls(p)

\* a deploy without --force in interactive mode found the record and a pod
\* and has reached the end of its try block
C12_Witness ==
    \E p \in Procs :
        /\ pc[p] = "release" /\ pod_found[p] = "found"
        /\ HasCall(p, "remove")
        /\ ~force[p] /\ ~cicd[p]
        /\ new_tag[p] = 2

\* C13: when podman is not available, deploy raises before it has made any
\* call that writes a cluster object (Registry Document, workspace document,
\* workload resources, Lock Record), with or without --skip-build and
\* --reset-lock.
C13_PodmanMissingNoMutation ==
    [][ \A p \in Procs :
           (pc[p] = "podman" /\ raised'[p] = "podman_required") =>
               calls[p] = <<>> ]_vars

\* the calls of delete --all, in the order of the source
DeleteAllCalls ==
    << Call("remove_all", NoName, 0, FALSE),
       Call("delete_k8s_resources", "app.kubernetes.io/name=dagster-user-deployments", 0, FALSE),
       Call("delete_k8s_resources", "app=dagster-user-deployments", 0, FALSE),
       Call("delete_configmaps", "app=dagster-user-deployments", 0, FALSE),
       Call("delete_k8s_resources", "dagster/code-location", 0, FALSE),
       Call("deploy_to_k8s", NoName, 0, TRUE) >>

\* C14: when delete --all, run while no other command runs, returns, the
\* Registry Document is empty whatever number of records it held, the
\* resources under each of the ownership labels have been deleted, and one
\* reload has been triggered, after all removals and deletions.
C14_DeleteAllEmptiesAndReloadsOnce ==
    \A p \in Procs :
        (cmd[p] = "delete_all" /\ pc[p] = "done") =>
            /\ registry = <<>>
            /\ calls[p] = DeleteAllCalls

\* delete --all has returned after a revive had added a record
C14_Witness ==
    \E p, q \in Procs :
        /\ cmd[p] = "delete_all" /\ pc[p] = "done"
        /\ cmd[q] = "revive" /\ pc[q] = "exited" /\ raised[q] = "none"

\* C15: a deploy without --reset-lock that finds the Lock Record held does
\* not end and raises nothing: the failed attempt leaves it in the acquire
\* loop, with the Lock Record untouched and the retry counter incremented, to
\* try again; and whenever it waits while the Lock Record is free, it
\* eventually enters its critical section unless another contender claims
\* the record first.
C15_WaitsUntilAcquired ==
    /\ [][ \A p \in Procs :
              (Attempt(p) /\ ~reset_lock[p] /\ lock.held) =>
                  /\ pc'[p] = "acquire"
                  /\ raised'[p] = "none"
                  /\ count'[p] = count[p] + 1
                  /\ lock' = lock ]_vars
    /\ \A p \in Procs :
          (pc[p] = "acquire" /\ ~reset_lock[p] /\ ~lock.held)
              ~> (InCS(p) \/ (lock.held /\ lock.holder # p))

\* an invocation without --reset-lock is in its critical section after as
\* many failed attempts as the model follows
C15_Witness ==
    \E p \in Procs :
        /\ ~reset_lock[p] /\ pc[p] = "podman" /\ count[p] = MaxCount
        /\ lock.holder = p

\* C16: once deploy has released the Semaphore, nothing that happens in its
\* status watcher (pod polling, readiness wait, registry existence check,
\* pod listing and log tail of check_deployment) ends the invocation with an
\* error: it always returns normally.
C16_WatchErrorsSwallowed ==
    [][ \A p \in Procs :
           (pc[p] \in WatchPhase /\ pc'[p] = "exited") => raised'[p] = "none" ]_vars

\* positions of deploy at which the next call reads the Registry Document:
\* _check_deployment_exists and the read halves of remove and add inside the
\* try block, and check_deployment's _check_deployment_exists, which follows
\* the readiness wait
DeployRegistryReads ==
    {"check_exists", "create_add_r", "update_rm_r", "update_add_r", "wait_ready"}

\* positions of deploy at which the next call writes the Registry Document
DeployRegistryWrites == {"create_add_w", "update_rm_w", "update_add_w"}

\* positions of deploy at which the next call deletes resources or triggers
\* the reload
DeployReconcile ==
    {"stale_delete", "nopod_delete", "pod_delete",
     "create_reload", "stale_reload", "nopod_reload", "pod_reload"}

\* p has made a successful acquire_semaphore and no release_semaphore yet
BetweenAcquireAndRelease(p) ==
    /\ calls[p] # <<>>
    /\ calls[p][1].op = "acquire_semaphore"
    /\ releases[p] = 0

RecordsOf(d, n) == SelectSeq(d, LAMBDA r : r.name = n)

\* C18: a deploy of (name, new tag) that runs while no other command runs
\* changes no record of another name at any step of its critical section,
\* and once its try block has completed the Registry Document holds exactly
\* one record named name, carrying the new tag, whether it took the create
\* path or the update path.
C18_DeployLeavesOneRecord ==
    /\ [][ \A p \in Procs :
              (InCS(p) /\ Completes(p)) =>
                  \A n \in Names \ {deployment_name'[p]} :
                      RecordsOf(registry', n) = RecordsOf(registry, n) ]_vars
    /\ [](\A p \in Procs :
              (cmd[p] = "deploy" /\ pc[p] \in {"release"} \cup WatchPhase) =>
                  RecordsOf(registry, deployment_name[p]) =
                      << Record(deployment_name[p], new_tag[p]) >>)

\* a deploy has replaced the record of its name by one with a new tag, next
\* to the record of another name
C18_Witness ==
    \E p \in Procs :
        /\ cmd[p] = "deploy" /\ pc[p] = "watch"
        /\ HasCall(p, "remove")
        /\ new_tag[p] = 2
        /\ Len(registry) = 2
        /\ registry[1].name # deployment_name[p]
        /\ registry[2] = Record(deployment_name[p], 2)

\* the calls of delete --name, in the order of the source
DeleteCalls(p) ==
    << Call("remove", deployment_name[p], 0, FALSE),
       Call("delete_k8s_resources", deployment_name[p], 0, TRUE),
       Call("deploy_to_k8s", NoName, 0, TRUE) >>

\* C19: a delete of one name, run while no other command runs, removes the
\* records of that name from the Registry Document and leaves the records of
\* every other name as they are; no other step of it changes the document;
\* and when it returns it has called, in this order, the removal, the
\* resource deletion with delete_deployments=True and the reload with
\* reload_dagster=True.
C19_DeleteRemovesThenDeletesThenReloads ==
    /\ [][ \A p \in Procs :
              (cmd[p] = "delete" /\ pc'[p] # pc[p]) =>
                  IF pc[p] = "delete_rm_w"
                  THEN /\ RecordsOf(registry', deployment_name[p]) = <<>>
                       /\ \A n \in Names \ {deployment_name[p]} :
                             RecordsOf(registry', n) = RecordsOf(registry, n)
                  ELSE registry' = registry ]_vars
    /\ [](\A p \in Procs :
              (cmd[p] = "delete" /\ pc[p] = "done") => calls[p] = DeleteCalls(p))

\* a delete of "a" has returned and the record of "b" is what is left
C19_Witness ==
    \E p \in Procs :
        /\ cmd[p] = "delete" /\ pc[p] = "done"
        /\ deployment_name[p] = "a"
        /\ registry = << Record("b", 1) >>

\* C20: when two concurrent deploys for different names, neither started
\* with --reset-lock, have both completed their critical sections without
\* error, the Registry Document holds for each of the two names exactly the
\* record with that deploy's new tag: neither update is lost.
C20_NoLostUpdate ==
    \A p, q \in Procs :
        ( /\ p # q
          /\ cmd[p] = "deploy" /\ cmd[q] = "deploy"
          /\ ~reset_lock[p] /\ ~reset_lock[q]
          /\ pc[p] \in WatchPhase /\ pc[q] \in WatchPhase
          /\ deployment_name[p] # deployment_name[q] ) =>
            /\ RecordsOf(registry, deployment_name[p]) =
                  << Record(deployment_name[p], new_tag[p]) >>
            /\ RecordsOf(registry, deployment_name[q]) =
                  << Record(deployment_name[q], new_tag[q]) >>

\* two deploys for different names have both released, the second one after
\* waiting for the first; one of them took the update path
C20_Witness ==
    \E p, q \in Procs :
        /\ cmd[p] = "deploy" /\ cmd[q] = "deploy"
        /\ ~reset_lock[p] /\ ~reset_lock[q]
        /\ pc[p] \in WatchPhase /\ pc[q] = "watch"
        /\ deployment_name[p] # deployment_name[q]
        /\ count[q] > 0
        /\ HasCall(p, "remove") /\ new_tag[p] = 2

====
